---- MODULE Spec2Model ----
(***************************************************************************)
(* Model of the print pipeline of printer_manager_for_TEMU:                *)
(*   print_logger.py            the CSV log store                          *)
(*   local_printer_interface.py print_sku_locally / get_sku_info           *)
(*   printer_panel.py           PrinterPanel._print_file                   *)
(*   printer_manager.py         history handlers (delete / clear)          *)
(*   printer_config.py          PrinterConfig.load_config                  *)
(*                                                                         *)
(* Text is a sequence of characters.  A character is a one-element string; *)
(* a run of ordinary characters that the CSV dialect never inspects (for   *)
(* instance "Timestamp") is kept as one element.                           *)
(***************************************************************************)
EXTENDS Integers, Sequences, FiniteSets, TLC

VARIABLES logFile, call, now, pc, req, gsCalls, result, panels, manager, last_sizes, defaultPrinter,
          configFile, deleting

(***************************************************************************)
(* Bounds of the model.                                                    *)
(***************************************************************************)
\* records in the store when a direct call appends one more
MaxRows == 2

\* records in the store when a print request may still start
MaxStored == 1

\* the last second of the clock
MaxTime == 2

(***************************************************************************)
(* print_logger.py: the CSV dialect (csv.writer / csv.reader, excel        *)
(* dialect, files opened with newline='').                                 *)
(***************************************************************************)
Comma == ","
Quote == "\""
CR == "\r"
LF == "\n"

NoFile == "NoFile"

LOG_HEADER == << <<"Timestamp">>, <<"SKU/Filename">>, <<"Quantity">>, <<"Printer">>, <<"Status">> >>

DigitChar == [d \in 0..9 |-> CASE d = 0 -> "0" [] d = 1 -> "1" [] d = 2 -> "2" [] d = 3 -> "3" [] d = 4 -> "4" [] d = 5 -> "5" [] d = 6 -> "6" [] d = 7 -> "7" [] d = 8 -> "8" [] d = 9 -> "9"]

RECURSIVE Digits(_)
Digits(n) == IF n < 10 THEN <<DigitChar[n]>> ELSE Digits(n \div 10) \o <<DigitChar[n % 10]>>

\* str(quantity) as csv.writer applies it to a non-string field
IntToStr(n) == IF n < 0 THEN <<"-">> \o Digits(0 - n) ELSE Digits(n)

IsDigit(c) == \E d \in 0..9 : DigitChar[d] = c

DigitVal(c) == CHOOSE d \in 0..9 : DigitChar[d] = c

RECURSIVE DigitsVal(_)
DigitsVal(s) == IF Len(s) = 0 THEN 0 ELSE 10 * DigitsVal(SubSeq(s, 1, Len(s) - 1)) + DigitVal(s[Len(s)])

\* int(quantity_str) of the history table, ValueError -> 1
ParseQuantity(s) ==
    IF Len(s) > 0 /\ \A i \in 1..Len(s) : IsDigit(s[i]) THEN DigitsVal(s)
    ELSE IF Len(s) > 1 /\ s[1] = "-" /\ \A i \in 2..Len(s) : IsDigit(s[i]) THEN 0 - DigitsVal(Tail(s))
    ELSE 1

NeedsQuote(f) == \E i \in 1..Len(f) : f[i] \in {Comma, Quote, CR, LF}

RECURSIVE DoubleQuotes(_)
DoubleQuotes(f) ==
    IF Len(f) = 0 THEN <<>>
    ELSE (IF Head(f) = Quote THEN <<Quote, Quote>> ELSE <<Head(f)>>) \o DoubleQuotes(Tail(f))

WriteField_Unquoted(f) == f

\* a field is quoted when it holds a delimiter, a quote or a line break
WriteField(f) == IF NeedsQuote(f) THEN <<Quote>> \o DoubleQuotes(f) \o <<Quote>> ELSE f

RECURSIVE JoinFields(_)
JoinFields(row) ==
    IF Len(row) = 0 THEN <<>>
    ELSE IF Len(row) = 1 THEN WriteField(row[1])
    ELSE WriteField(row[1]) \o <<Comma>> \o JoinFields(Tail(row))

\* csv.writer.writerow: one line, terminated by \r\n
WriteRow(row) ==
    (IF Len(row) = 1 /\ row[1] = <<>> THEN <<Quote, Quote>> ELSE JoinFields(row)) \o <<CR, LF>>

RECURSIVE WriteRows(_)
WriteRows(rows) == IF Len(rows) = 0 THEN <<>> ELSE WriteRow(Head(rows)) \o WriteRows(Tail(rows))

\* csv.reader: the parser before the first character of the file
ParseStart == [st |-> "START_RECORD", fld |-> <<>>, row |-> <<>>, rows |-> <<>>]

\* the end of a record: the row goes to the result; after \r a following
\* \n belongs to the same line break
EndRecord(p, c, row) ==
    [st |-> IF c = CR THEN "EAT_CRNL" ELSE "START_RECORD", fld |-> <<>>, row |-> <<>>,
     rows |-> Append(p.rows, row)]

\* csv.reader: one character in the state START_FIELD
StartField(p, c) ==
    IF c \in {CR, LF} THEN EndRecord(p, c, Append(p.row, <<>>))
    ELSE IF c = Quote THEN [p EXCEPT !.st = "IN_QUOTED_FIELD", !.fld = <<>>]
    ELSE IF c = Comma THEN [p EXCEPT !.st = "START_FIELD", !.fld = <<>>, !.row = Append(p.row, <<>>)]
    ELSE [p EXCEPT !.st = "IN_FIELD", !.fld = <<c>>]

\* csv.reader: one character in the state START_RECORD
StartRecord(p, c) ==
    IF c \in {CR, LF} THEN EndRecord(p, c, <<>>)
    ELSE StartField([p EXCEPT !.fld = <<>>, !.row = <<>>], c)

\* csv.reader: the parser's state machine, one character of the file
ParseChar(p, c) ==
    CASE p.st = "START_RECORD" -> StartRecord(p, c)
      [] p.st = "EAT_CRNL" ->
            IF c = LF THEN [p EXCEPT !.st = "START_RECORD"] ELSE StartRecord(p, c)
      [] p.st = "START_FIELD" -> StartField(p, c)
      [] p.st = "IN_FIELD" ->
            IF c \in {CR, LF} THEN EndRecord(p, c, Append(p.row, p.fld))
            ELSE IF c = Comma THEN [p EXCEPT !.st = "START_FIELD", !.fld = <<>>, !.row = Append(p.row, p.fld)]
            ELSE [p EXCEPT !.fld = Append(p.fld, c)]
      [] p.st = "IN_QUOTED_FIELD" ->
            IF c = Quote THEN [p EXCEPT !.st = "QUOTE_IN_QUOTED_FIELD"]
            ELSE [p EXCEPT !.fld = Append(p.fld, c)]
      [] p.st = "QUOTE_IN_QUOTED_FIELD" ->
            IF c = Quote THEN [p EXCEPT !.st = "IN_QUOTED_FIELD", !.fld = Append(p.fld, Quote)]
            ELSE IF c = Comma THEN [p EXCEPT !.st = "START_FIELD", !.fld = <<>>, !.row = Append(p.row, p.fld)]
            ELSE IF c \in {CR, LF} THEN EndRecord(p, c, Append(p.row, p.fld))
            ELSE [p EXCEPT !.st = "IN_FIELD", !.fld = Append(p.fld, c)]

\* the parser after the characters s[lo..hi], started in p (the range is
\* halved and the left half is evaluated first, so that the evaluation stays
\* shallow; the reader is not strict, it has no error state to stop in)
RECURSIVE ParseRows(_, _, _, _)
ParseRows(s, lo, hi, p) ==
    IF lo > hi THEN p
    ELSE IF lo = hi THEN ParseChar(p, s[lo])
    ELSE LET mid == (lo + hi) \div 2
             left == ParseRows(s, lo, mid, p)
         IN  IF left.st = "ERROR" THEN left ELSE ParseRows(s, mid + 1, hi, left)

\* list(csv.reader(f)): at the end of the file an unfinished record is a row
ReadRows(text) ==
    LET p == ParseRows(text, 1, Len(text), ParseStart)
    IN  IF p.st \in {"START_RECORD", "EAT_CRNL"} THEN p.rows ELSE Append(p.rows, Append(p.row, p.fld))

NonEmptyRows(rows) == SelectSeq(rows, LAMBDA r : Len(r) > 0)

(***************************************************************************)
(* print_logger.py: the four operations on the store.  ioOk = FALSE is     *)
(* the outcome in which opening the file raises IOError.                   *)
(***************************************************************************)
log_print_job_Prepend(file, timestamp, sku_or_filename, quantity, printer_name, status, ioOk) ==
    IF ~ioOk THEN file
    ELSE WriteRows(<<LOG_HEADER, <<timestamp, sku_or_filename, IntToStr(quantity), printer_name, status>> >>
                   \o (IF file = NoFile \/ Len(file) = 0 THEN <<>> ELSE Tail(ReadRows(file))))

log_print_job_HeaderAlways(file, timestamp, sku_or_filename, quantity, printer_name, status, ioOk) ==
    IF ~ioOk THEN file
    ELSE (IF file = NoFile THEN <<>> ELSE file) \o WriteRow(LOG_HEADER)
         \o WriteRow(<<timestamp, sku_or_filename, IntToStr(quantity), printer_name, status>>)

\* log_print_job: the file after the call (IOError is caught and printed)
log_print_job(file, timestamp, sku_or_filename, quantity, printer_name, status, ioOk) ==
    LET file_exists == file # NoFile
        old == IF file_exists THEN file ELSE <<>>
        header == IF ~file_exists \/ Len(old) = 0 THEN WriteRow(LOG_HEADER) ELSE <<>>
    IN  IF ~ioOk THEN file
        ELSE old \o header \o WriteRow(<<timestamp, sku_or_filename, IntToStr(quantity), printer_name, status>>)

\* read_print_log: the list of records
read_print_log(file, ioOk) ==
    IF file = NoFile \/ ~ioOk THEN <<>>
    ELSE LET rows == ReadRows(file) IN
         IF Len(rows) = 0 \/ Len(rows[1]) = 0 THEN <<>>
         ELSE NonEmptyRows(Tail(rows))

\* position of the first row with the timestamp, 0 when there is none
FirstMatch(data, ts) ==
    IF \E i \in 1..Len(data) : data[i][1] = ts
    THEN CHOOSE i \in 1..Len(data) : data[i][1] = ts /\ \A j \in 1..(i - 1) : data[j][1] # ts
    ELSE 0

delete_print_log_entry_FirstOnly(file, timestamp_to_delete, ioOk) ==
    IF file = NoFile \/ ~ioOk THEN [file |-> file, ret |-> FALSE]
    ELSE LET rows == ReadRows(file) IN
         IF Len(rows) = 0 \/ Len(rows[1]) = 0 THEN [file |-> file, ret |-> FALSE]
         ELSE LET data == NonEmptyRows(Tail(rows))
                  k == FirstMatch(data, timestamp_to_delete)
              IN  IF k = 0 THEN [file |-> file, ret |-> FALSE]
                  ELSE [file |-> WriteRows(<<rows[1]>> \o SubSeq(data, 1, k - 1) \o SubSeq(data, k + 1, Len(data))),
                        ret |-> TRUE]

\* delete_print_log_entry: the file after the call and the returned flag
delete_print_log_entry(file, timestamp_to_delete, ioOk) ==
    IF file = NoFile \/ ~ioOk THEN [file |-> file, ret |-> FALSE]
    ELSE LET rows == ReadRows(file) IN
         IF Len(rows) = 0 \/ Len(rows[1]) = 0 THEN [file |-> file, ret |-> FALSE]
         ELSE LET data == NonEmptyRows(Tail(rows))
                  rows_to_keep == <<rows[1]>> \o SelectSeq(data, LAMBDA r : r[1] # timestamp_to_delete)
                  deleted_count == Len(data) + 1 - Len(rows_to_keep)
              IN  IF deleted_count = 0 THEN [file |-> file, ret |-> FALSE]
                  ELSE [file |-> WriteRows(rows_to_keep), ret |-> TRUE]

clear_all_print_logs_Truncate(file, ioOk) ==
    IF ~ioOk THEN [file |-> file, ret |-> FALSE]
    ELSE [file |-> <<>>, ret |-> TRUE]

\* clear_all_print_logs: the file after the call and the returned flag
clear_all_print_logs(file, ioOk) ==
    IF ~ioOk THEN [file |-> file, ret |-> FALSE]
    ELSE [file |-> WriteRow(LOG_HEADER), ret |-> TRUE]

(***************************************************************************)
(* The environment of a print request: printers, folders, documents.       *)
(***************************************************************************)
\* printer names of print_set.txt, one with a space
Printers == { <<"LP1">>, <<"LP", " ", "2">> }

\* the printers listed in print_set.txt: each gets a panel
PanelPrinters == { <<"LP1">> }

None == "None"

\* None where the value is otherwise a text
NoText == <<"None">>

GsExe == "gswin64c.exe"

\* PrinterConfig.default_paths
temuskupdf_folder == <<"D:", "\\", "temuskupdf">>

other_folder_default == <<"D:", "\\", "other">>

\* separator_pdf_name = "\u5206\u526272.pdf", written here in ASCII
separator_pdf_default == <<"separator72", ".pdf">>

\* os.path.join(folder, name)
PathJoin(folder, name) == folder \o <<"\\">> \o name

RECURSIVE LastSep(_)
LastSep(path) == IF Len(path) = 0 \/ path[Len(path)] = "\\" THEN Len(path) ELSE LastSep(SubSeq(path, 1, Len(path) - 1))

\* os.path.basename(path)
Basename(path) == SubSeq(path, LastSep(path) + 1, Len(path))

\* first-page boxes of the documents (width, height), in tenths of a point
Pages == { <<2830, 4000>>, <<4250, 2830>> }

\* QDateTime.currentDateTime().toString("yyyy-MM-dd hh:mm:ss") at second t
TimeStr(t) == <<"2025-01-01 10:00:">> \o (IF t < 10 THEN <<"0">> ELSE <<>>) \o IntToStr(t)

\* the clock at a later call: the same second or the next one
Clock == { t \in {now, now + 1} : t <= MaxTime }

\* round to nearest of a / b for a, b > 0
RoundDiv(a, b) == (2 * a + b) \div (2 * b)

(***************************************************************************)
(* local_printer_interface.py                                              *)
(***************************************************************************)
\* str.lower(): of the characters of the model only the extension has an
\* upper-case spelling
Lower(s) == [i \in 1..Len(s) |-> IF s[i] = ".PDF" THEN ".pdf" ELSE s[i]]

\* str.endswith('.pdf')
EndsWithPdf(s) == Len(s) > 0 /\ s[Len(s)] = ".pdf"

\* file_name of get_sku_info: the extension is appended unless present
SkuFileName(sku) == IF EndsWithPdf(Lower(sku)) THEN sku ELSE sku \o <<".pdf">>

\* round(points * (2.54 / 72.0), 2), in hundredths of a centimetre, for a
\* length in tenths of a point
RoundedCm(points) == RoundDiv(points * 254, 720)

\* os.path.exists(os.path.join(folder, file_name)) on the file system of
\* Windows, which does not distinguish the case of names: doc is the one
\* document of the folder, doc.state = "not_found" when it was removed
PathExists(file_name, doc) == doc.state # "not_found" /\ Lower(file_name) = Lower(doc.name)

\* the configuration get_sku_info loads is readable, its temuskupdf_folder is
\* not empty and names a directory
RootUsable(root) == root.config = "valid" /\ root.folder # <<>> /\ root.kind = "dir"

\* get_sku_info reaches fitz.open(full_path)
OpensDocument(sku, root, doc) == RootUsable(root) /\ PathExists(SkuFileName(sku), doc)

get_sku_info_RoundedFlag(sku, root, doc) ==
    IF ~OpensDocument(sku, root, doc) \/ doc.state # "ok" THEN <<>>
    ELSE << [full_path |-> PathJoin(root.folder, SkuFileName(sku)),
             filename |-> SkuFileName(sku),
             width_cm |-> RoundedCm(doc.box[1]),
             height_cm |-> RoundedCm(doc.box[2]),
             is_landscape |-> RoundedCm(doc.box[1]) > RoundedCm(doc.box[2])] >>

get_sku_info_AnyRoot(sku, root, doc) ==
    IF root.config # "valid" \/ ~PathExists(SkuFileName(sku), doc) \/ doc.state # "ok" THEN <<>>
    ELSE << [full_path |-> PathJoin(root.folder, SkuFileName(sku)),
             filename |-> SkuFileName(sku),
             width_cm |-> RoundedCm(doc.box[1]),
             height_cm |-> RoundedCm(doc.box[2]),
             is_landscape |-> doc.box[1] > doc.box[2]] >>

\* get_sku_info: <<>> for None, or <<SkuInfo>>.  root is the configuration as
\* get_sku_info loads it; doc is the document of the folder: removed,
\* unreadable, without pages ("empty"), or with a first page box.
get_sku_info(sku, root, doc) ==
    IF ~OpensDocument(sku, root, doc) \/ doc.state # "ok" THEN <<>>
    ELSE << [full_path |-> PathJoin(root.folder, SkuFileName(sku)),
             filename |-> SkuFileName(sku),
             width_cm |-> RoundedCm(doc.box[1]),
             height_cm |-> RoundedCm(doc.box[2]),
             is_landscape |-> doc.box[1] > doc.box[2]] >>

\* gs_path after step 2 of print_sku_locally: None when no usable executable
FindGs(gs_path, found) ==
    IF gs_path = None THEN (IF found THEN GsExe ELSE None)
    ELSE IF gs_path = GsExe THEN GsExe ELSE None

\* an invocation of the rasterizer.  Lengths are in 1/254 point, the scale
\* in thousandths.
GsCommand(exe, printer, copies, width, height, orient, ox, oy, scale, input) ==
    [exe |-> exe, printer |-> printer, copies |-> copies, width |-> width, height |-> height,
     orient |-> orient, offset_x |-> ox, offset_y |-> oy, scale |-> scale, input |-> input]

\* width_cm * (72.0 / 2.54) for a width in hundredths of a centimetre
ApiDevicePoints(cm100) == cm100 * 72

\* 2.8 * (72.0/2.54)
ApiOffsetX == 20160

\* -1.0 * (72.0/2.54)
ApiOffsetY == 0 - 7200

\* scale_factor = 0.982
ApiScale == 982

\* base_gs_command + [pdf_full_path]
ApiMainCommand(r) ==
    GsCommand(r.gs, r.printer, r.quantity, ApiDevicePoints(r.width), ApiDevicePoints(r.height),
              IF r.is_landscape THEN 1 ELSE 0, ApiOffsetX, ApiOffsetY, ApiScale, r.full_path)

ApiSepCopies_Quantity(r) == r.quantity

\* "-dNumCopies=1": one copy of the separator
ApiSepCopies(r) == 1

\* separator_gs_command
ApiSepCommand(r) ==
    GsCommand(r.gs, r.printer, ApiSepCopies(r), ApiDevicePoints(r.width), ApiDevicePoints(r.height),
              IF r.is_landscape THEN 1 ELSE 0, ApiOffsetX, ApiOffsetY, ApiScale,
              PathJoin(r.other_folder, r.separator_name))

\* "<< /Policies << /PageSize 3 >> >> setpagedevice"
PageSizePolicy == <<"<< /Policies << /PageSize 3 >> >> setpagedevice">>

\* the page-offset and scale fragment; the numbers are written in the units
\* of the model
PageOffsetScale(ox, oy, scale) ==
    <<"<< /PageOffset [">> \o IntToStr(ox) \o <<" ">> \o IntToStr(oy) \o <<"] /BeginPage { ">>
    \o IntToStr(scale) \o <<" dup scale }  >> setpagedevice">>

\* main_print_command: the list handed to subprocess.run, each element a text
ApiMainArgs(r) ==
    << <<r.gs>>,
       <<"-dNOPAUSE">>,
       <<"-dBATCH">>,
       <<"-dSAFER">>,
       <<"-sDEVICE=mswinpr2">>,
       <<"-sOutputFile=%printer%">> \o r.printer,
       <<"-dNumCopies=">> \o IntToStr(r.quantity),
       <<"-dDEVICEWIDTHPOINTS=">> \o IntToStr(ApiDevicePoints(r.width)),
       <<"-dDEVICEHEIGHTPOINTS=">> \o IntToStr(ApiDevicePoints(r.height)),
       <<"-dORIENT1=">> \o (IF r.is_landscape THEN <<"1">> ELSE <<"0">>),
       <<"-c">>,
       PageSizePolicy,
       PageOffsetScale(ApiOffsetX, ApiOffsetY, ApiScale),
       <<"-f">>,
       r.full_path >>

\* separator_gs_command as a list
ApiSepArgs(r) ==
    << <<r.gs>>,
       <<"-dNOPAUSE">>, <<"-dBATCH">>, <<"-dSAFER">>,
       <<"-sDEVICE=mswinpr2">>,
       <<"-sOutputFile=%printer%">> \o r.printer,
       <<"-dNumCopies=">> \o IntToStr(ApiSepCopies(r)),
       <<"-dDEVICEWIDTHPOINTS=">> \o IntToStr(ApiDevicePoints(r.width)),
       <<"-dDEVICEHEIGHTPOINTS=">> \o IntToStr(ApiDevicePoints(r.height)),
       <<"-dORIENT1=">> \o (IF r.is_landscape THEN <<"1">> ELSE <<"0">>),
       <<"-c">>,
       PageSizePolicy,
       PageOffsetScale(ApiOffsetX, ApiOffsetY, ApiScale),
       <<"-f">>,
       PathJoin(r.other_folder, r.separator_name) >>

ApiMainStatus == <<"Printed via Local Interface">>

ApiSepStatus == <<"Printed Separator via Local Interface">>

\* a default key that printer_config.json does not have
NoKey == <<"NoKey">>

\* PrinterConfig.default_paths
default_paths ==
    [temuskupdf_folder |-> temuskupdf_folder,
     other_folder |-> other_folder_default,
     print_set_file |-> <<"print_set", ".txt">>]

DefaultKeys == DOMAIN default_paths

\* printer_config.json with all the default keys, other_folder as given
CompleteConfig(other) ==
    [state |-> "valid", keys |-> [default_paths EXCEPT !.other_folder = other]]

\* printer_config.json as a process finds it: absent, not valid JSON, valid
\* without any default key, valid with some of them (other_folder set to
\* the empty text by the user), or valid with all of them
ConfigFiles ==
    { [state |-> "absent", keys |-> [k \in DefaultKeys |-> NoKey]],
      [state |-> "malformed", keys |-> [k \in DefaultKeys |-> NoKey]],
      [state |-> "valid", keys |-> [k \in DefaultKeys |-> NoKey]],
      [state |-> "valid", keys |-> [temuskupdf_folder |-> temuskupdf_folder, other_folder |-> <<>>,
                                    print_set_file |-> NoKey]],
      CompleteConfig(<<>>),
      CompleteConfig(other_folder_default) }

\* PrinterConfig(): json.load raises on a malformed file; a key of
\* default_paths that the file lacks gets its default; the file is written
\* when it was absent or a default was added
load_config(file) ==
    LET config == IF file.state = "valid" THEN file.keys ELSE [k \in DefaultKeys |-> NoKey]
        filled == [k \in DefaultKeys |-> IF config[k] = NoKey THEN default_paths[k] ELSE config[k]]
        config_changed == file.state = "absent" \/ filled # config
    IN  [raised |-> file.state = "malformed",
         config |-> filled,
         written |-> file.state # "malformed" /\ config_changed,
         file |-> IF file.state # "malformed" /\ config_changed
                  THEN [state |-> "valid", keys |-> filled] ELSE file]

NoReq ==
    [path |-> "none", printer |-> <<>>, quantity |-> 0, full_path |-> <<>>, filename |-> <<>>,
     width |-> 0, height |-> 0, is_landscape |-> FALSE, gs |-> None,
     print_separator |-> FALSE, other_folder |-> <<>>, separator_name |-> <<>>,
     sep_exists |-> "unchecked", cause |-> "none", main_logged |-> FALSE, sep_logged |-> FALSE,
     log_before |-> NoFile, root_arg |-> NoText, box |-> <<0, 0>>,
     config_loads |-> 0, config_written |-> FALSE,
     how |-> [origin |-> "none", record |-> <<>>, origin_exists |-> FALSE],
     before |-> [configFile |-> CompleteConfig(other_folder_default), last_sizes |-> <<>>,
                 defaultPrinter |-> <<>>, config_loaded |-> FALSE]]

\* the state a request finds, apart from the log store
Frame(p) == [configFile |-> configFile, last_sizes |-> last_sizes[p], defaultPrinter |-> defaultPrinter,
             config_loaded |-> manager.config_loaded]

SkuInputs == { <<"A">> }

QuantityInputs == {0 - 1, 0, 2}

GsPathInputs == {None, GsExe, "C:\\missing\\gs.exe"}

\* the other_folder argument, and the value of the configuration key
FolderInputs == {NoText, other_folder_default}

ConfigFolders == {<<>>, other_folder_default}

SeparatorNames == {<<>>, separator_pdf_default}

\* the temuskupdf_folder argument: None, or a folder of the caller
RootArgInputs == {NoText, <<"E:", "\\", "labels">>}

\* the document of the SKU in the folder
DocStates ==
    [name : {<<"A", ".pdf">>}, state : {"not_found", "unreadable", "empty"}, box : {<<0, 0>>}]
    \cup [name : {<<"A", ".pdf">>}, state : {"ok"}, box : Pages]

Finish(r, res) ==
    /\ pc' = "done"
    /\ req' = r
    /\ result' = res

QuantityRejected_Negative(quantity) == quantity < 0

\* if quantity <= 0: return False
QuantityRejected(quantity) == quantity <= 0

\* print_sku_locally up to the construction of the command
ApiStart ==
    /\ pc = "idle"
    /\ ~manager.running
    /\ Len(read_print_log(logFile, TRUE)) <= MaxStored
    /\ gsCalls' = <<>>
    /\ UNCHANGED <<logFile, call, deleting, now, panels, last_sizes, defaultPrinter>>
    /\ \E quantity \in QuantityInputs, printer_name \in Printers :
        LET r0 == [NoReq EXCEPT !.path = "api", !.printer = printer_name, !.quantity = quantity,
                                !.log_before = logFile,
                                !.before = [configFile |-> configFile, last_sizes |-> <<>>,
                                            defaultPrinter |-> defaultPrinter,
                                            config_loaded |-> manager.config_loaded]]
            \* _config_manager = PrinterConfig()
            cfg == load_config(configFile)
            \* config_manager = PrinterConfig() of get_sku_info
            cfg2 == load_config(cfg.file)
        IN  IF QuantityRejected(quantity)
            THEN Finish([r0 EXCEPT !.cause = "quantity"], "False") /\ UNCHANGED <<configFile, manager>>
            ELSE IF cfg.raised
            THEN /\ Finish([r0 EXCEPT !.cause = "config", !.config_loads = 1], "raised")
                 /\ UNCHANGED <<configFile, manager>>
            ELSE /\ configFile' = cfg2.file
                 /\ manager' = [manager EXCEPT !.config_loaded = TRUE]
                 /\ \E sku \in SkuInputs, folder_arg \in RootArgInputs, kind \in {"dir", "missing"},
                        doc \in DocStates :
                      LET root == [config |-> "valid", folder |-> cfg2.config.temuskupdf_folder,
                                   kind |-> kind]
                          sku_info == get_sku_info(sku, root, doc)
                          r00 == [r0 EXCEPT !.root_arg = folder_arg, !.config_loads = 2,
                                            !.config_written = cfg.written \/ cfg2.written]
                      IN
                      IF sku_info = <<>>
                      THEN Finish([r00 EXCEPT !.cause = IF OpensDocument(sku, root, doc)
                                                        THEN "unreadable" ELSE "not_found"], "False")
                      ELSE \E gs_path \in GsPathInputs :
                           \E found \in (IF gs_path = None THEN BOOLEAN ELSE {FALSE}) :
                           LET gs == FindGs(gs_path, found)
                               r1 == [r00 EXCEPT !.full_path = sku_info[1].full_path,
                                                 !.filename = sku_info[1].filename,
                                                 !.width = sku_info[1].width_cm,
                                                 !.height = sku_info[1].height_cm,
                                                 !.is_landscape = sku_info[1].is_landscape,
                                                 !.box = doc.box,
                                                 !.gs = gs]
                           IN  IF gs = None THEN Finish([r1 EXCEPT !.cause = "no_gs"], "False")
                               ELSE \E folder \in FolderInputs, print_separator \in BOOLEAN,
                                       separator_pdf_name \in SeparatorNames :
                                    /\ pc' = "api_main"
                                    /\ result' = "none"
                                    /\ req' = [r1 EXCEPT
                                          !.other_folder = IF folder = NoText
                                                           THEN cfg.config.other_folder ELSE folder,
                                          !.print_separator = print_separator,
                                          !.separator_name = separator_pdf_name]

\* subprocess.run(check=True) returned and result.returncode == 0
ApiMainSucceeded(outcome) == outcome = "exit0"

\* subprocess.run of the main command
ApiMainSubmit ==
    /\ pc = "api_main"
    /\ UNCHANGED <<logFile, call, deleting, now, panels, manager, configFile, last_sizes, defaultPrinter>>
    /\ \E outcome \in {"exit0", "nonzero", "spawn_failure"} :
        /\ gsCalls' = Append(gsCalls, [kind |-> "main", cmd |-> ApiMainCommand(req), argv |-> ApiMainArgs(req),
                                       outcome |-> outcome])
        /\ IF ApiMainSucceeded(outcome)
           THEN pc' = "api_main_log" /\ UNCHANGED <<req, result>>
           ELSE Finish([req EXCEPT !.cause = outcome], "False")

ApiSepWanted_Unrequested(r) == r.other_folder # <<>> /\ r.separator_name # <<>>

\* the separator is attempted when requested, configured and named
ApiSepWanted(r) == r.print_separator /\ r.other_folder # <<>> /\ r.separator_name # <<>>

\* log_print_job of the main job, then the conditions of the separator
ApiMainLog ==
    /\ pc = "api_main_log"
    /\ UNCHANGED <<call, deleting, gsCalls, panels, manager, configFile, last_sizes, defaultPrinter>>
    /\ \E t \in Clock, ioOk \in BOOLEAN :
        /\ now' = t
        /\ logFile' = log_print_job(logFile, TimeStr(t), req.filename, req.quantity, req.printer,
                                    ApiMainStatus, ioOk)
        /\ LET r == [req EXCEPT !.main_logged = ioOk] IN
           IF ApiSepWanted(r)
           THEN \E exists \in BOOLEAN :
                    IF exists
                    THEN /\ pc' = "api_sep"
                         /\ req' = [r EXCEPT !.sep_exists = "yes"]
                         /\ UNCHANGED result
                    ELSE Finish([r EXCEPT !.sep_exists = "no"], "True")
           ELSE Finish(r, "True")

ApiResultAfterSeparator_Escalated(outcome) == IF outcome = "exit0" THEN "True" ELSE "False"

\* return True: the main job was successful, whatever the separator did
ApiResultAfterSeparator(outcome) == "True"

\* subprocess.run of the separator command
ApiSepSubmit ==
    /\ pc = "api_sep"
    /\ UNCHANGED <<logFile, call, deleting, now, panels, manager, configFile, last_sizes, defaultPrinter>>
    /\ \E outcome \in {"exit0", "nonzero", "spawn_failure"} :
        /\ gsCalls' = Append(gsCalls, [kind |-> "sep", cmd |-> ApiSepCommand(req), argv |-> ApiSepArgs(req),
                                       outcome |-> outcome])
        /\ IF outcome = "exit0"
           THEN pc' = "api_sep_log" /\ UNCHANGED <<req, result>>
           ELSE Finish(req, ApiResultAfterSeparator(outcome))

\* log_print_job of the separator, then return True
ApiSepLog ==
    /\ pc = "api_sep_log"
    /\ UNCHANGED <<call, deleting, gsCalls, panels, manager, configFile, last_sizes, defaultPrinter>>
    /\ \E t \in Clock, ioOk \in BOOLEAN :
        /\ now' = t
        /\ logFile' = log_print_job(logFile, TimeStr(t), req.separator_name, 1, req.printer,
                                    ApiSepStatus, ioOk)
        /\ Finish([req EXCEPT !.sep_logged = ioOk], "True")

(***************************************************************************)
(* printer_panel.py                                                        *)
(***************************************************************************)
SpinBoxValue_Unclamped(v) == v

\* QSpinBox.setValue with setMinimum(1), setMaximum(9999)
SpinBoxValue(v) == IF v < 1 THEN 1 ELSE IF v > 9999 THEN 9999 ELSE v

\* round(points * 0.352778, 1), in tenths of a millimetre, for a length in
\* tenths of a point (0.352778 = 176389 / 500000)
RoundedMm(points) == RoundDiv(points * 176389, 500000)

AnalyzeSize_AfterSwap(box) ==
    LET is_landscape == box[1] > box[2]
        size == IF is_landscape THEN <<RoundedMm(box[2]), RoundedMm(box[1])>>
                ELSE <<RoundedMm(box[1]), RoundedMm(box[2])>>
    IN  [size |-> size, is_landscape |-> size[1] > size[2]]

\* _analyze_and_update_size: the size tuple and the orientation, the sides
\* exchanged for a landscape page
AnalyzeSize(box) ==
    LET is_landscape == box[1] > box[2] IN
    [size |-> IF is_landscape THEN <<RoundedMm(box[2]), RoundedMm(box[1])>>
              ELSE <<RoundedMm(box[1]), RoundedMm(box[2])>>,
     is_landscape |-> is_landscape]

\* int(width_cm * 10) * 2.834645669291339 for a size in tenths
PanelDevicePoints(tenths) == tenths * 720

\* 2.8 * 2.834645669291339
PanelOffsetX == 2016

\* -{1 * 2.834645669291339}
PanelOffsetY == 0 - 720

PanelScale == 982

\* command of _print_file
PanelMainCommand(r, panel) ==
    GsCommand(r.gs, r.printer, panel.copies, PanelDevicePoints(r.width), PanelDevicePoints(r.height),
              IF panel.is_landscape = "yes" THEN 1 ELSE 0, PanelOffsetX, PanelOffsetY, PanelScale,
              panel.file_path)

\* "-dNumCopies=1": one copy of the separator
PanelSepCopies(panel) == 1

\* command_separator of _print_file
PanelSepCommand(r, panel) ==
    GsCommand(r.gs, r.printer, PanelSepCopies(panel), PanelDevicePoints(r.width),
              PanelDevicePoints(r.height), IF panel.is_landscape = "yes" THEN 1 ELSE 0,
              PanelOffsetX, PanelOffsetY, PanelScale, PathJoin(r.other_folder, r.separator_name))

\* command of _print_file as a list, each element a text
PanelMainArgs(r, panel) ==
    << <<r.gs>>,
       <<"-dNOPAUSE">>,
       <<"-dBATCH">>,
       <<"-dSAFER">>,
       <<"-sDEVICE=mswinpr2">>,
       <<"-sOutputFile=%printer%">> \o r.printer,
       <<"-dNumCopies=">> \o IntToStr(panel.copies),
       <<"-dDEVICEWIDTHPOINTS=">> \o IntToStr(PanelDevicePoints(r.width)),
       <<"-dDEVICEHEIGHTPOINTS=">> \o IntToStr(PanelDevicePoints(r.height)),
       <<"-dORIENT1=">> \o (IF panel.is_landscape = "yes" THEN <<"1">> ELSE <<"0">>),
       <<"-c">>,
       PageSizePolicy,
       PageOffsetScale(PanelOffsetX, PanelOffsetY, PanelScale),
       <<"-f">>,
       panel.file_path >>

PanelSepArgs_CopiesFirst(r, panel) ==
    << <<r.gs>>,
       <<"-dNumCopies=">> \o IntToStr(PanelSepCopies(panel)),
       <<"-dNOPAUSE">>, <<"-dBATCH">>, <<"-dSAFER">>,
       <<"-sDEVICE=mswinpr2">>,
       <<"-sOutputFile=%printer%">> \o r.printer,
       <<"-dDEVICEWIDTHPOINTS=">> \o IntToStr(PanelDevicePoints(r.width)),
       <<"-dDEVICEHEIGHTPOINTS=">> \o IntToStr(PanelDevicePoints(r.height)),
       <<"-dORIENT1=">> \o (IF panel.is_landscape = "yes" THEN <<"1">> ELSE <<"0">>),
       <<"-c">>,
       PageSizePolicy,
       PageOffsetScale(PanelOffsetX, PanelOffsetY, PanelScale),
       <<"-f">>,
       PathJoin(r.other_folder, r.separator_name) >>

\* command_separator of _print_file as a list
PanelSepArgs(r, panel) ==
    << <<r.gs>>,
       <<"-dNOPAUSE">>, <<"-dBATCH">>, <<"-dSAFER">>,
       <<"-sDEVICE=mswinpr2">>,
       <<"-sOutputFile=%printer%">> \o r.printer,
       <<"-dNumCopies=">> \o IntToStr(PanelSepCopies(panel)),
       <<"-dDEVICEWIDTHPOINTS=">> \o IntToStr(PanelDevicePoints(r.width)),
       <<"-dDEVICEHEIGHTPOINTS=">> \o IntToStr(PanelDevicePoints(r.height)),
       <<"-dORIENT1=">> \o (IF panel.is_landscape = "yes" THEN <<"1">> ELSE <<"0">>),
       <<"-c">>,
       PageSizePolicy,
       PageOffsetScale(PanelOffsetX, PanelOffsetY, PanelScale),
       <<"-f">>,
       PathJoin(r.other_folder, r.separator_name) >>

PanelMainStatus == <<"Printed">>

PanelSepStatus == <<"Printed Separator">>

CopiesInputs == {1, 2}

\* file_name of _set_file: the extension is appended unless the text ends
\* with '.pdf' as written
PanelFileName(text) == IF EndsWithPdf(text) THEN text ELSE text \o <<".pdf">>

\* _set_file: the path the text resolves to and whether it exists
set_file(text, folder, doc) ==
    [full_path |-> PathJoin(folder, PanelFileName(text)),
     found |-> PathExists(PanelFileName(text), doc)]

NewPanel == [file_path |-> <<>>, copies |-> 1, is_landscape |-> "unset"]

\* DragDropLineEdit.dropEvent: a PDF of the document folder is dropped
PanelDropFile(p) ==
    /\ pc = "idle"
    /\ manager.running
    /\ UNCHANGED <<logFile, call, deleting, now, pc, req, gsCalls, result, manager, configFile, last_sizes, defaultPrinter>>
    /\ \E sku \in SkuInputs :
        /\ panels[p].file_path # PathJoin(temuskupdf_folder, SkuFileName(sku))
        /\ panels' = [panels EXCEPT ![p].file_path = PathJoin(temuskupdf_folder, SkuFileName(sku))]

\* _set_file: Enter in the line edit that holds a SKU; a path that exists
\* replaces the text and the number of copies is set to 0
PanelSetFile(p) ==
    /\ pc = "idle"
    /\ manager.running
    /\ UNCHANGED <<logFile, call, deleting, now, pc, req, gsCalls, result, manager, configFile, last_sizes, defaultPrinter>>
    /\ \E text \in SkuInputs, doc \in DocStates :
        LET r == set_file(text, temuskupdf_folder, doc) IN
        /\ r.found
        /\ panels' = [panels EXCEPT ![p].file_path = r.full_path, ![p].copies = SpinBoxValue(0)]
        /\ panels' # panels

\* the user edits the number of copies
PanelSetCopies(p) ==
    /\ pc = "idle"
    /\ manager.running
    /\ UNCHANGED <<logFile, call, deleting, now, pc, req, gsCalls, result, manager, configFile, last_sizes, defaultPrinter>>
    /\ \E v \in CopiesInputs :
        /\ panels[p].copies # SpinBoxValue(v)
        /\ panels' = [panels EXCEPT ![p].copies = SpinBoxValue(v)]

\* how a request of the panel was started: by the print button or Enter in
\* the spin box, by a double click on a common file, or by the reprint button
\* of a history record
ByButton == [origin |-> "button", record |-> <<>>, origin_exists |-> FALSE]

\* _print_file up to the construction of the command, for the line edit and
\* the spin box as the handler that calls it left them (panel) and the
\* states the file may be in (docs)
print_file(p, panel, how, docs) ==
    /\ Len(read_print_log(logFile, TRUE)) <= MaxStored
    /\ gsCalls' = <<>>
    /\ UNCHANGED <<logFile, call, deleting, now, manager, configFile>>
    /\ LET r0 == [NoReq EXCEPT !.path = "panel", !.printer = p, !.quantity = panel.copies,
                               !.full_path = panel.file_path, !.log_before = logFile,
                               !.before = Frame(p), !.how = how]
       IN  \E doc \in docs :
           IF panel.file_path = <<>> \/ doc.state = "not_found"
           THEN /\ Finish([r0 EXCEPT !.cause = "not_found"], "warned")
                /\ panels' = [panels EXCEPT ![p] = panel]
                /\ UNCHANGED <<last_sizes, defaultPrinter>>
           ELSE /\ defaultPrinter' = p
                /\ IF doc.state \in {"unreadable", "empty"}
                   THEN /\ Finish([r0 EXCEPT !.cause = "unreadable"], "warned")
                        /\ panels' = [panels EXCEPT ![p] = panel]
                        /\ UNCHANGED last_sizes
                   ELSE LET a == AnalyzeSize(doc.box)
                            r1 == [r0 EXCEPT !.filename = Basename(panel.file_path),
                                             !.width = a.size[1], !.height = a.size[2],
                                             !.is_landscape = a.is_landscape,
                                             !.box = doc.box,
                                             !.gs = manager.gs_path,
                                             !.print_separator = TRUE,
                                             !.other_folder = manager.other_folder,
                                             !.separator_name = separator_pdf_default]
                        IN  /\ last_sizes' = [last_sizes EXCEPT ![p] = a.size]
                            /\ panels' = [panels EXCEPT ![p] =
                                              [panel EXCEPT !.is_landscape =
                                                   IF a.is_landscape THEN "yes" ELSE "no"]]
                            /\ IF manager.gs_path = None
                               THEN Finish([r1 EXCEPT !.cause = "no_gs"], "warned")
                               ELSE pc' = "panel_main" /\ req' = r1 /\ result' = "none"

\* the print button, or Enter in the spin box
PanelStart(p) ==
    /\ pc = "idle"
    /\ manager.running
    /\ print_file(p, panels[p], ByButton, DocStates)

\* the PDF files of other_folder listed in the panel when it was created
CommonFiles == { <<"C", ".pdf">> }

\* the states of a file that os.path.exists has just found
ExistingDocs == { d \in DocStates : d.state # "not_found" }

\* _print_common_file: a double click on a common file; the number of
\* copies is the one the spin box holds
PanelPrintCommonFile(p) ==
    /\ pc = "idle"
    /\ manager.running
    /\ manager.other_folder # <<>>
    /\ \E file_name \in CommonFiles :
        print_file(p, [panels[p] EXCEPT !.file_path = PathJoin(manager.other_folder, file_name)],
                   [origin |-> "common", record |-> <<>>, origin_exists |-> TRUE], ExistingDocs)

PanelMainSucceeded_AnyExit(outcome) == outcome # "spawn_failure"

\* subprocess.run(check=True) returned and result.returncode == 0
PanelMainSucceeded(outcome) == outcome = "exit0"

\* subprocess.run of the main command
PanelMainSubmit ==
    /\ pc = "panel_main"
    /\ UNCHANGED <<logFile, call, deleting, now, panels, manager, configFile, last_sizes, defaultPrinter>>
    /\ \E outcome \in {"exit0", "nonzero", "spawn_failure"} :
        /\ gsCalls' = Append(gsCalls, [kind |-> "main", cmd |-> PanelMainCommand(req, panels[req.printer]),
                                       argv |-> PanelMainArgs(req, panels[req.printer]),
                                       outcome |-> outcome])
        /\ IF PanelMainSucceeded(outcome)
           THEN pc' = "panel_main_log" /\ UNCHANGED <<req, result>>
           ELSE Finish([req EXCEPT !.cause = outcome], "warned")

\* the end of a successful _print_file: the panel is reset
PanelReset == panels' = [panels EXCEPT ![req.printer].file_path = <<>>,
                                       ![req.printer].copies = SpinBoxValue(1)]

\* the separator is attempted when the manager has an other_folder
PanelSepWanted(r) == r.other_folder # <<>>

\* log_print_job of the main job, then the conditions of the separator
PanelMainLog ==
    /\ pc = "panel_main_log"
    /\ UNCHANGED <<call, deleting, gsCalls, manager, configFile, last_sizes, defaultPrinter>>
    /\ \E t \in Clock, ioOk \in BOOLEAN :
        /\ now' = t
        /\ logFile' = log_print_job(logFile, TimeStr(t), req.filename, panels[req.printer].copies,
                                    req.printer, PanelMainStatus, ioOk)
        /\ LET r == [req EXCEPT !.main_logged = ioOk] IN
           IF PanelSepWanted(r)
           THEN \E exists \in BOOLEAN :
                    IF exists
                    THEN /\ pc' = "panel_sep"
                         /\ req' = [r EXCEPT !.sep_exists = "yes"]
                         /\ UNCHANGED <<result, panels>>
                    ELSE Finish([r EXCEPT !.sep_exists = "no"], "printed") /\ PanelReset
           ELSE Finish(r, "printed") /\ PanelReset

\* subprocess.run of the separator command
PanelSepSubmit ==
    /\ pc = "panel_sep"
    /\ UNCHANGED <<logFile, call, deleting, now, manager, configFile, last_sizes, defaultPrinter>>
    /\ \E outcome \in {"exit0", "nonzero", "spawn_failure"} :
        /\ gsCalls' = Append(gsCalls, [kind |-> "sep", cmd |-> PanelSepCommand(req, panels[req.printer]),
                                       argv |-> PanelSepArgs(req, panels[req.printer]),
                                       outcome |-> outcome])
        /\ IF outcome = "exit0"
           THEN pc' = "panel_sep_log" /\ UNCHANGED <<req, result, panels>>
           ELSE Finish(req, "printed") /\ PanelReset

\* log_print_job of the separator, then the reset of the panel
PanelSepLog ==
    /\ pc = "panel_sep_log"
    /\ UNCHANGED <<call, deleting, gsCalls, manager, configFile, last_sizes, defaultPrinter>>
    /\ \E t \in Clock, ioOk \in BOOLEAN :
        /\ now' = t
        /\ logFile' = log_print_job(logFile, TimeStr(t), req.separator_name, 1, req.printer,
                                    PanelSepStatus, ioOk)
        /\ Finish([req EXCEPT !.sep_logged = ioOk], "printed")
        /\ PanelReset

\* the request returns to its caller (or to the event loop)
Return ==
    /\ pc = "done"
    /\ pc' = "idle"
    /\ req' = NoReq
    /\ gsCalls' = <<>>
    /\ result' = "none"
    /\ UNCHANGED <<logFile, call, deleting, now, panels, manager, configFile, last_sizes, defaultPrinter>>

(***************************************************************************)
(* printer_manager.py: the handlers of the history tab                     *)
(***************************************************************************)
\* the file a history record was printed from: a SKU document from the
\* document folder, a common file or the separator from other_folder
PrintedFrom(record) ==
    IF record[2] \in { SkuFileName(sku) : sku \in SkuInputs }
    THEN PathJoin(temuskupdf_folder, record[2])
    ELSE PathJoin(manager.other_folder, record[2])

\* _handle_reprint_button_clicked on a row of the history table, the
\* quantity as _load_print_history parsed it.  found: os.path.exists of the
\* path in the document folder.  A file that was printed from other_folder
\* is still there.
HandleReprint ==
    /\ pc = "idle"
    /\ manager.running
    /\ LET log_data == read_print_log(logFile, TRUE) IN
       \E i \in 1..Len(log_data), found \in BOOLEAN :
        LET record == log_data[i]
            printer_name == record[4]
            sku_basename == record[2]
            quantity == ParseQuantity(record[3])
            full_path == PathJoin(temuskupdf_folder, sku_basename)
            how == [origin |-> "reprint", record |-> record,
                    origin_exists |-> IF full_path = PrintedFrom(record) THEN found ELSE TRUE]
        IN  IF printer_name \notin DOMAIN panels
            THEN /\ Finish([NoReq EXCEPT !.path = "reprint", !.cause = "no_panel", !.how = how,
                                         !.log_before = logFile], "warned")
                 /\ gsCalls' = <<>>
                 /\ UNCHANGED <<logFile, call, deleting, now, panels, manager, configFile, last_sizes,
                                defaultPrinter>>
            ELSE IF ~found
            THEN /\ Finish([NoReq EXCEPT !.path = "reprint", !.cause = "not_found", !.how = how,
                                         !.printer = printer_name, !.log_before = logFile], "warned")
                 /\ gsCalls' = <<>>
                 /\ UNCHANGED <<logFile, call, deleting, now, panels, manager, configFile, last_sizes,
                                defaultPrinter>>
            ELSE print_file(printer_name,
                            [panels[printer_name] EXCEPT !.file_path = full_path,
                                                         !.copies = SpinBoxValue(quantity)],
                            how, ExistingDocs)

\* _handle_delete_button_clicked, confirmed, on a row of the table
HandleDelete ==
    /\ pc = "idle"
    /\ manager.running
    /\ UNCHANGED <<call, deleting, now, pc, req, gsCalls, result, panels, manager, configFile, last_sizes, defaultPrinter>>
    /\ LET log_data == read_print_log(logFile, TRUE) IN
       \E i \in 1..Len(log_data), ioOk \in BOOLEAN :
        logFile' = delete_print_log_entry(logFile, log_data[i][1], ioOk).file

\* _handle_clear_all_records_button_clicked, confirmed
HandleClearAll ==
    /\ pc = "idle"
    /\ manager.running
    /\ UNCHANGED <<call, deleting, now, pc, req, gsCalls, result, panels, manager, configFile, last_sizes, defaultPrinter>>
    /\ \E ioOk \in BOOLEAN : logFile' = clear_all_print_logs(logFile, ioOk).file

(***************************************************************************)
(* Inputs of the direct calls on the store (print_logger.py __main__).     *)
(***************************************************************************)
Stamp1 == <<"2025-01-01 10:00:01">>

Stamp2 == <<"2025-01-01 10:00:02">>

\* records with a comma, a quote and a line break inside a field, a printer
\* name with a space, one-digit and two-digit quantities
LogInputs ==
    { <<Stamp1, <<"A.pdf">>, 3, <<"LP1">>, <<"Printed">> >>,
      <<Stamp1, <<"A", Comma, "B.pdf">>, 12, <<"LP", " ", "1">>, <<"Printed">> >>,
      <<Stamp2, <<Quote, "A", Quote>>, 3, <<"LP", " ", "1">>, <<"Failed">> >>,
      <<Stamp2, <<"A", LF, "B">>, 12, <<"LP1">>, <<"Printed", Comma, Quote>> >>,
      <<Stamp2, <<>>, 1, <<CR, LF>>, <<"Printed">> >> }

DeleteInputs == { Stamp1, Stamp2, <<"2000-01-01 00:00:00">> }

\* the record as read_print_log returns it: every field is text
AsRow(rec) == <<rec[1], rec[2], IntToStr(rec[3]), rec[4], rec[5]>>

\* no PrinterManager: the process is a script that imports the modules
NoManager == [running |-> FALSE, gs_path |-> None, other_folder |-> <<>>, config_loaded |-> FALSE]

NoCall == [op |-> "none", arg |-> <<>>, ret |-> FALSE, io |-> TRUE, before |-> NoFile]

\* no delete_print_log_entry is between its read and its rewrite
NoDelete ==
    [phase |-> "none", ts |-> <<>>, snapshot |-> NoFile, rows_to_keep |-> NoFile, appended |-> <<>>]

\* the store states the direct calls start from: file missing or empty
InitLog ==
    /\ logFile \in {NoFile, <<>>}
    /\ call = NoCall
    /\ now = 1
    /\ pc = "idle"
    /\ req = NoReq
    /\ gsCalls = <<>>
    /\ result = "none"
    /\ panels = [p \in PanelPrinters |-> NewPanel]
    /\ manager = NoManager
    /\ last_sizes = [p \in PanelPrinters |-> <<>>]
    /\ defaultPrinter = <<>>
    /\ configFile = CompleteConfig(other_folder_default)
    /\ deleting = NoDelete

pipeVars == <<now, pc, req, gsCalls, result, panels, manager, last_sizes, defaultPrinter, configFile>>

\* a delete that has returned is forgotten at the next call
Forget(d) == IF d.phase = "done" THEN NoDelete ELSE d

\* log_print_job by a process; while a delete of another process is between
\* its read and its rewrite, the record it appended is remembered.  The race
\* examined is that of one delete against appends: no other delete or clear
\* runs between the two phases.
LogPrintJob ==
    \E rec \in LogInputs, ioOk \in BOOLEAN :
        /\ Len(read_print_log(logFile, TRUE)) < MaxRows
        /\ logFile' = log_print_job(logFile, rec[1], rec[2], rec[3], rec[4], rec[5], ioOk)
        /\ call' = [op |-> "log", arg |-> rec, ret |-> FALSE, io |-> ioOk, before |-> logFile]
        /\ deleting' = IF deleting.phase = "read" /\ ioOk
                       THEN [deleting EXCEPT !.appended = Append(@, AsRow(rec))]
                       ELSE Forget(deleting)
        /\ UNCHANGED pipeVars

DeletePrintLogEntry ==
    \E ts \in DeleteInputs, ioOk \in BOOLEAN :
        LET r == delete_print_log_entry(logFile, ts, ioOk) IN
        /\ deleting.phase # "read"
        /\ UNCHANGED pipeVars
        /\ logFile' = r.file
        /\ deleting' = Forget(deleting)
        /\ call' = [op |-> "delete", arg |-> ts, ret |-> r.ret, io |-> ioOk, before |-> logFile]

ClearAllPrintLogs ==
    \E ioOk \in BOOLEAN :
        LET r == clear_all_print_logs(logFile, ioOk) IN
        /\ deleting.phase # "read"
        /\ UNCHANGED pipeVars
        /\ logFile' = r.file
        /\ deleting' = Forget(deleting)
        /\ call' = [op |-> "clear", arg |-> <<>>, ret |-> r.ret, io |-> ioOk, before |-> logFile]

\* delete_print_log_entry up to the end of its read: the file was read, an
\* entry with the timestamp was found and rows_to_keep is complete
DeleteReadPhase ==
    \E ts \in DeleteInputs :
        LET r == delete_print_log_entry(logFile, ts, TRUE) IN
        /\ deleting.phase # "read"
        /\ r.ret
        /\ deleting' = [phase |-> "read", ts |-> ts, snapshot |-> logFile, rows_to_keep |-> r.file,
                        appended |-> <<>>]
        /\ UNCHANGED <<logFile, call>>
        /\ UNCHANGED pipeVars

rewrite_log_Reread(file, d) == delete_print_log_entry(file, d.ts, TRUE).file

\* open(log_file, 'w') and writer.writerows(rows_to_keep): the file holds the
\* rows kept at the read, whatever it held before the rewrite
rewrite_log(file, d) == d.rows_to_keep

\* delete_print_log_entry from the rewrite to its return
DeleteRewritePhase ==
    \E ioOk \in BOOLEAN :
        /\ deleting.phase = "read"
        /\ logFile' = IF ioOk THEN rewrite_log(logFile, deleting) ELSE logFile
        /\ deleting' = [deleting EXCEPT !.phase = "done"]
        /\ call' = [op |-> "delete_rewrite", arg |-> deleting.ts, ret |-> ioOk, io |-> ioOk,
                    before |-> logFile]
        /\ UNCHANGED pipeVars

vars == <<logFile, call, now, pc, req, gsCalls, result, panels, manager, last_sizes, defaultPrinter,
         configFile, deleting>>

NextLog ==
    \/ LogPrintJob \/ DeletePrintLogEntry \/ ClearAllPrintLogs
    \/ DeleteReadPhase \/ DeleteRewritePhase

SpecLog == InitLog /\ [][NextLog]_vars

(***************************************************************************)
(* The two resolvers applied to a SKU (specification SpecResolve).         *)
(***************************************************************************)
\* the document of the folder
DocName == <<"A", ".pdf">>

\* spellings of the SKU of the document, and a SKU without a document
ResolveSkus == { <<"A">>, <<"A", ".pdf">>, <<"A", ".PDF">>, <<"B">> }

\* page boxes: portrait, landscape, nearly square both ways, one point square
ResolveBoxes == { <<2830, 4250>>, <<4250, 2830>>, <<2835, 2834>>, <<2834, 2835>>, <<10, 10>> }

\* the configuration and the folder it names: unreadable file, empty value,
\* no such folder, a file of that name, a directory
ResolveRoots ==
    { [config |-> "malformed", folder |-> <<>>, kind |-> "missing"],
      [config |-> "valid", folder |-> <<>>, kind |-> "missing"] }
    \cup [config : {"valid"}, folder : {temuskupdf_folder}, kind : {"missing", "file", "dir"}]

ResolveDocs ==
    [name : {DocName}, state : {"not_found", "unreadable", "empty"}, box : {<<0, 0>>}]
    \cup [name : {DocName}, state : {"ok"}, box : ResolveBoxes]

NoResolve ==
    [op |-> "none", sku |-> <<>>, root |-> [config |-> "valid", folder |-> <<>>, kind |-> "missing"],
     doc |-> [name |-> DocName, state |-> "not_found", box |-> <<0, 0>>],
     path |-> <<>>, info |-> <<>>, opened |-> FALSE]

InitResolve ==
    /\ logFile = NoFile
    /\ call = NoResolve
    /\ now = 1
    /\ pc = "idle"
    /\ req = NoReq
    /\ gsCalls = <<>>
    /\ result = "none"
    /\ panels = [p \in PanelPrinters |-> NewPanel]
    /\ manager = NoManager
    /\ last_sizes = [p \in PanelPrinters |-> <<>>]
    /\ defaultPrinter = <<>>
    /\ configFile = CompleteConfig(other_folder_default)
    /\ deleting = NoDelete

\* get_sku_info(sku) for a configuration and a document
GetSkuInfo ==
    \E sku \in ResolveSkus, root \in ResolveRoots, doc \in ResolveDocs :
        LET info == get_sku_info(sku, root, doc) IN
        /\ call' = [op |-> "get_sku_info", sku |-> sku, root |-> root, doc |-> doc,
                    path |-> IF info = <<>> THEN <<>> ELSE info[1].full_path,
                    info |-> info, opened |-> OpensDocument(sku, root, doc)]
        /\ UNCHANGED <<logFile, deleting>>
        /\ UNCHANGED pipeVars

\* _set_file for the text of the line edit: the path the line edit holds
\* afterwards, none when the warning is shown
SetFile ==
    \E text \in ResolveSkus, doc \in ResolveDocs :
        LET r == set_file(text, temuskupdf_folder, doc) IN
        /\ call' = [op |-> "set_file", sku |-> text,
                    root |-> [config |-> "valid", folder |-> temuskupdf_folder, kind |-> "dir"],
                    doc |-> doc, path |-> IF r.found THEN r.full_path ELSE <<>>,
                    info |-> <<>>, opened |-> FALSE]
        /\ UNCHANGED <<logFile, deleting>>
        /\ UNCHANGED pipeVars

NextResolve == GetSkuInfo \/ SetFile

SpecResolve == InitResolve /\ [][NextResolve]_vars

\* A run is either the application of main.py, after the construction of the
\* manager and its panels, or a script that calls print_sku_locally.
Init ==
    /\ manager \in {NoManager} \cup [running : {TRUE}, gs_path : {None, GsExe}, other_folder : ConfigFolders,
                                     config_loaded : {TRUE}]
    /\ logFile \in {NoFile, <<>>}
    /\ call = NoCall
    /\ now = 1
    /\ pc = "idle"
    /\ req = NoReq
    /\ gsCalls = <<>>
    /\ result = "none"
    /\ panels = [p \in PanelPrinters |-> NewPanel]
    /\ last_sizes = [p \in PanelPrinters |-> <<>>]
    /\ defaultPrinter = <<>>
    /\ configFile \in (IF manager.running THEN {CompleteConfig(manager.other_folder)} ELSE ConfigFiles)
    /\ deleting = NoDelete

Next ==
    \/ ApiStart \/ ApiMainSubmit \/ ApiMainLog \/ ApiSepSubmit \/ ApiSepLog
    \/ \E p \in DOMAIN panels : PanelDropFile(p)
    \/ \E p \in DOMAIN panels : PanelSetFile(p)
    \/ \E p \in DOMAIN panels : PanelSetCopies(p)
    \/ \E p \in DOMAIN panels : PanelStart(p)
    \/ PanelMainSubmit \/ PanelMainLog \/ PanelSepSubmit \/ PanelSepLog
    \/ Return
    \/ HandleDelete \/ HandleClearAll

Spec == Init /\ [][Next]_vars

(***************************************************************************)
(* The application started with a history (specification SpecHistory):     *)
(* jobs are started from the panel by SKU entry, by a double click on a    *)
(* common file and by the reprint button of a history record.              *)
(***************************************************************************)
\* the record print_sku_locally or _print_file wrote for a job
HistoryRecord(name, quantity, status) == <<TimeStr(1), name, IntToStr(quantity), <<"LP1">>, status>>

\* the stores earlier runs left, of one record each: a SKU document printed
\* by a script with a quantity above the range of the spin box, a SKU
\* document, a common file and a separator page printed from the panel
HistoryStores ==
    { WriteRows(<<LOG_HEADER, rec>>) :
        rec \in { HistoryRecord(<<"A", ".pdf">>, 10000, ApiMainStatus),
                  HistoryRecord(<<"A", ".pdf">>, 2, PanelMainStatus),
                  HistoryRecord(<<"C", ".pdf">>, 2, PanelMainStatus),
                  HistoryRecord(separator_pdf_default, 1, PanelSepStatus) } }

InitHistory ==
    /\ manager \in [running : {TRUE}, gs_path : {GsExe}, other_folder : {other_folder_default},
                     config_loaded : {TRUE}]
    /\ logFile \in HistoryStores
    /\ call = NoCall
    /\ now = 1
    /\ pc = "idle"
    /\ req = NoReq
    /\ gsCalls = <<>>
    /\ result = "none"
    /\ panels = [p \in PanelPrinters |-> NewPanel]
    /\ last_sizes = [p \in PanelPrinters |-> <<>>]
    /\ defaultPrinter = <<>>
    /\ configFile = CompleteConfig(manager.other_folder)
    /\ deleting = NoDelete

NextHistory ==
    \/ \E p \in DOMAIN panels : PanelSetFile(p)
    \/ \E p \in DOMAIN panels : PanelSetCopies(p)
    \/ \E p \in DOMAIN panels : PanelStart(p)
    \/ \E p \in DOMAIN panels : PanelPrintCommonFile(p)
    \/ HandleReprint
    \/ PanelMainSubmit \/ PanelMainLog \/ PanelSepSubmit \/ PanelSepLog
    \/ Return

SpecHistory == InitHistory /\ [][NextHistory]_vars

(***************************************************************************)
(* Properties of a print request (specification Spec).                     *)
(***************************************************************************)
Records == read_print_log(logFile, TRUE)

Before == read_print_log(req.log_before, TRUE)

MainStatus == IF req.path = "api" THEN ApiMainStatus ELSE PanelMainStatus

\* the record of the main job of the request in flight, logged at second t
MainRow(t) == <<TimeStr(t), req.filename, IntToStr(req.quantity), req.printer, MainStatus>>

\* the store holds the earlier records and then the record of the main job
MainRecordAppended ==
    LET records == Records
        before  == Before
    IN  /\ Len(records) > Len(before)
        /\ SubSeq(records, 1, Len(before)) = before
        /\ \E t \in 1..MaxTime : records[Len(before) + 1] = MainRow(t)

MainExitZero == Len(gsCalls) > 0 /\ gsCalls[1].kind = "main" /\ gsCalls[1].outcome = "exit0"

SepInvoked == \E i \in 1..Len(gsCalls) : gsCalls[i].kind = "sep"

Succeeded == result \in {"True", "printed"}

Failed == result \in {"False", "warned"}

\* C1: with a quantity of zero or less print_sku_locally returns False, the
\* rasterizer is never invoked and the log store is left as it was.
C1_NonPositiveQuantity ==
    (req.path = "api" /\ req.quantity <= 0) =>
        /\ pc = "done"
        /\ result = "False"
        /\ gsCalls = <<>>
        /\ logFile = req.log_before

C1_Witness ==
    /\ pc = "done" /\ req.path = "api" /\ req.quantity = 0 /\ result = "False"
    /\ Len(Before) > 0

\* the main job failed: before the rasterizer was invoked, at its spawn, or
\* by a non-zero exit code
MainFailed ==
    \/ req.cause \in {"not_found", "unreadable", "no_gs"}
    \/ Len(gsCalls) > 0 /\ gsCalls[1].kind = "main" /\ gsCalls[1].outcome # "exit0"

\* C2: when the main job fails (document not resolved or not analysable, no
\* rasterizer, spawn failure, non-zero exit) the request reports failure and
\* the store holds exactly what it held before, on both print paths.
C2_FailureLeavesStore ==
    MainFailed => /\ pc = "done"
                  /\ Failed
                  /\ logFile = req.log_before
                  /\ Records = Before

C2_Witness ==
    /\ pc = "done" /\ req.path = "panel" /\ req.cause = "nonzero"
    /\ Len(gsCalls) = 1 /\ Len(Before) > 0 /\ Failed

\* C3: on the programmatic path exit code 0 of the main job appends the
\* record of the job and returns True, and True is returned only when the
\* record of the main job was written, whatever the outcome of the write.
C3_TrueOnlyWhenLogged ==
    (pc = "done" /\ req.path = "api") =>
        /\ MainExitZero => (result = "True" /\ MainRecordAppended)
        /\ result = "True" => MainRecordAppended

\* C4: once the main job has succeeded and its record is written, the
\* request ends in success for every outcome of the separator, and the
\* record of the main job is in the store at the end.
C4_SeparatorNeverEscalates ==
    (pc = "done" /\ MainExitZero) =>
        /\ Succeeded
        /\ req.main_logged => MainRecordAppended

C4_Witness ==
    /\ pc = "done" /\ MainExitZero /\ req.main_logged /\ Succeeded
    /\ Len(gsCalls) = 2 /\ gsCalls[2].kind = "sep" /\ gsCalls[2].outcome = "nonzero"
    /\ MainRecordAppended

\* the four conditions of the separator sub-job
SepConditions ==
    /\ req.print_separator
    /\ req.other_folder # <<>>
    /\ req.separator_name # <<>>
    /\ req.sep_exists = "yes"

C6_SeparatorAfterLogged == SepInvoked => MainRecordAppended

\* C7: the separator invocation has the printer, device width and height,
\* orientation, offset and scale of the main invocation, one copy and its
\* own input file; the separator's record has quantity 1.
C7_SeparatorCommand ==
    (Len(gsCalls) = 2 /\ gsCalls[2].kind = "sep") =>
        LET m == gsCalls[1].cmd
            s == gsCalls[2].cmd
        IN  /\ gsCalls[1].kind = "main"
            /\ [s EXCEPT !.copies = m.copies, !.input = m.input] = m
            /\ s.copies = 1
            /\ s.input = PathJoin(req.other_folder, req.separator_name)
            /\ (pc = "done" /\ req.sep_logged) =>
                   LET records == Records
                   IN  /\ Len(records) > 0
                       /\ records[Len(records)][2] = req.separator_name
                       /\ records[Len(records)][3] = <<"1">>
                       /\ records[Len(records)][4] = req.printer

C7_Witness ==
    /\ pc = "done" /\ Len(gsCalls) = 2 /\ gsCalls[2].kind = "sep" /\ req.sep_logged
    /\ gsCalls[1].cmd.copies = 2 /\ gsCalls[2].cmd.copies = 1
    /\ gsCalls[1].cmd.orient = 1
    /\ Records[Len(Records)][3] = <<"1">>

\* C13: print_sku_locally resolves the SKU against the temuskupdf_folder
\* argument when the caller passes one, and against the configured folder
\* only when the argument is None.
C13_FolderArgumentUsed ==
    (req.path = "api" /\ req.full_path # <<>>) =>
        req.full_path = PathJoin(IF req.root_arg = NoText THEN temuskupdf_folder ELSE req.root_arg,
                                 req.filename)

Abs(x) == IF x < 0 THEN 0 - x ELSE x

\* a device length (1/254 point) is the page length (tenths of a point) up
\* to the rounding of the measured size: 0.005 cm, or 0.05 mm, is 36/254 point
SamePoints(device, page) == Abs(10 * device - 254 * page) <= 400

\* C15: on both paths the device width and height of every invocation are
\* the measured page size in centimetres times 72/2.54, that is the page box
\* in points up to rounding.
C15_DeviceSizeIsPageSize ==
    \A i \in 1..Len(gsCalls) :
        /\ SamePoints(gsCalls[i].cmd.width, req.box[1])
        /\ SamePoints(gsCalls[i].cmd.height, req.box[2])

\* C16: the orientation flag of every job submitted by a request is 1 when
\* the document analysed in that request is landscape and 0 otherwise,
\* whatever an earlier request analysed.
C16_OrientationOfThisRequest ==
    \A i \in 1..Len(gsCalls) :
        gsCalls[i].cmd.orient = (IF req.box[1] > req.box[2] THEN 1 ELSE 0)

C16_Witness ==
    /\ req.path = "panel" /\ Len(gsCalls) = 2
    /\ req.before.last_sizes = <<RoundedMm(2830), RoundedMm(4250)>>
    /\ req.box = <<2830, 4000>>
    /\ gsCalls[1].cmd.orient = 0 /\ gsCalls[2].cmd.orient = 0

\* a length in tenths of a millimetre, in 1/254 point
MmToDevice(tenths) == tenths * 72

\* C17: every invocation, main and separator, on both paths, carries the
\* page offset of +2.8 mm and -1.0 mm in points and the scale 0.982.
C17_FixedCalibration ==
    \A i \in 1..Len(gsCalls) :
        /\ gsCalls[i].cmd.offset_x = MmToDevice(28)
        /\ gsCalls[i].cmd.offset_y = MmToDevice(0 - 10)
        /\ gsCalls[i].cmd.scale = 982

\* C18: after a request that failed, the configuration file, last_sizes, the
\* log store and the default printer of the operating system are what they
\* were before the request.
C18_FailedRequestFrame ==
    (pc = "done" /\ result \in {"False", "warned", "raised"}) =>
        /\ configFile = req.before.configFile
        /\ defaultPrinter = req.before.defaultPrinter
        /\ req.path = "panel" => last_sizes[req.printer] = req.before.last_sizes
        /\ logFile = req.log_before

\* C19: print_sku_locally never propagates an exception: every failure is
\* reported by the returned value.
C19_NoExceptionPropagates == result # "raised"

(***************************************************************************)
(* Properties of the log store (specification SpecLog).                    *)
(***************************************************************************)
StoreBefore == read_print_log(call.before, TRUE)

\* C8: after log_print_job, read_print_log returns the earlier records
\* unchanged and in order, then the new record with its five fields, the
\* quantity as the decimal text of the number.
C8_LogThenRead ==
    (call.op = "log" /\ call.io) =>
        /\ read_print_log(logFile, TRUE) = Append(StoreBefore, AsRow(call.arg))
        /\ ParseQuantity(read_print_log(logFile, TRUE)[Len(StoreBefore) + 1][3]) = call.arg[3]

C8_Witness ==
    /\ call.op = "log" /\ call.io
    /\ Len(StoreBefore) = 1
    /\ (\E i \in 1..Len(call.arg[2]) : call.arg[2][i] = Comma)
    /\ call.arg[3] = 12
    /\ read_print_log(logFile, TRUE)[2] = AsRow(call.arg)

HasStamp(records, ts) == \E i \in 1..Len(records) : records[i][1] = ts

C10_ClearLeavesHeader ==
    (call.op = "clear" /\ call.ret) =>
        /\ ReadRows(logFile) = <<LOG_HEADER>>
        /\ read_print_log(logFile, TRUE) = <<>>
        /\ \A rec \in LogInputs :
              read_print_log(log_print_job(logFile, rec[1], rec[2], rec[3], rec[4], rec[5], TRUE), TRUE)
                  = <<AsRow(rec)>>

C10_Witness ==
    /\ call.op = "clear" /\ call.ret
    /\ Len(StoreBefore) = 2
    /\ read_print_log(logFile, TRUE) = <<>>

(***************************************************************************)
(* Properties of the resolvers (specification SpecResolve).                *)
(***************************************************************************)
\* the spellings of the SKU of the document in the folder
SpellingsOfDoc == { <<"A">>, <<"A", ".pdf">>, <<"A", ".PDF">> }

\* the configured folder is set and is a directory
RootIsDirectory ==
    call.root.config = "valid" /\ call.root.folder # <<>> /\ call.root.kind = "dir"

\* the SKU with the extension appended unless it ends with it, in either case
NormalName(sku) == IF sku[Len(sku)] \in {".pdf", ".PDF"} THEN sku ELSE sku \o <<".pdf">>

\* C11: both resolvers append the extension only when the SKU does not end
\* with it, so every spelling of a SKU (bare, with the extension, with the
\* extension in upper case) resolves to the same existing path.
C11_ExtensionOnlyWhenAbsent ==
    (/\ call.op \in {"get_sku_info", "set_file"}
     /\ call.sku \in SpellingsOfDoc
     /\ RootIsDirectory
     /\ call.doc.state = "ok") =>
        /\ call.path # <<>>
        /\ Lower(call.path) = PathJoin(call.root.folder, DocName)

\* C12: get_sku_info returns None without opening a document when the root
\* is unset, missing or not a directory or the joined path does not exist;
\* it returns None after opening a document that cannot be read or has no
\* page; otherwise it returns the SkuInfo whose full_path is the root joined
\* with the normalized file name.
C12_NotFoundOrAnalysisError ==
    call.op = "get_sku_info" =>
        LET exists == call.doc.state # "not_found" /\ call.sku \in SpellingsOfDoc IN
        /\ (~RootIsDirectory \/ ~exists) => (call.info = <<>> /\ ~call.opened)
        /\ (RootIsDirectory /\ exists /\ call.doc.state \in {"unreadable", "empty"}) =>
                (call.info = <<>> /\ call.opened)
        /\ (RootIsDirectory /\ exists /\ call.doc.state = "ok") =>
                /\ call.opened
                /\ call.info # <<>>
                /\ call.info[1].filename = NormalName(call.sku)
                /\ call.info[1].full_path = PathJoin(call.root.folder, NormalName(call.sku))

C12_Witness ==
    /\ call.op = "get_sku_info" /\ call.sku = <<"A", ".PDF">>
    /\ RootIsDirectory /\ call.doc.state = "ok"
    /\ call.info # <<>> /\ call.info[1].full_path = PathJoin(temuskupdf_folder, <<"A", ".PDF">>)

WithoutRow(records, k) == SubSeq(records, 1, k - 1) \o SubSeq(records, k + 1, Len(records))

\* C20: when several records share the timestamp passed to
\* delete_print_log_entry, only the first of them is removed.
C20_FirstMatchOnly ==
    (call.op = "delete" /\ call.io /\ call.ret) =>
        read_print_log(logFile, TRUE) = WithoutRow(StoreBefore, FirstMatch(StoreBefore, call.arg))

\* the rows of the file as csv.reader yields them
FileRows == IF logFile = NoFile THEN <<>> ELSE ReadRows(logFile)

\* the header is the first row of the file and no other row, and
\* read_print_log returns every other row and never the header
HeaderOnce ==
    /\ Len(FileRows) > 0
    /\ FileRows[1] = LOG_HEADER
    /\ \A i \in 2..Len(FileRows) : FileRows[i] # LOG_HEADER
    /\ Len(read_print_log(logFile, TRUE)) = Len(FileRows) - 1
    /\ \A i \in 1..Len(read_print_log(logFile, TRUE)) : read_print_log(logFile, TRUE)[i] = FileRows[i + 1]

\* C21 as stated: from a missing or empty file, after any sequence of calls
\* the file, if it exists, has the header as its first row exactly once.
C21_HeaderAfterAnyCall == (call.op # "none" /\ logFile # NoFile) => HeaderOnce

\* C21: from a missing or empty file, after any sequence of calls the file,
\* if it exists and is not empty, has the header as its first row exactly
\* once, and read_print_log returns exactly the rows after it; a file that
\* was empty at the start stays empty until the first successful write.
C21_HeaderOnceWritten ==
    /\ (logFile # NoFile /\ logFile # <<>>) => HeaderOnce
    /\ (call.op \in {"log", "clear"} /\ call.io) => (logFile # NoFile /\ logFile # <<>>)

C21_Witness ==
    /\ call.op = "delete" /\ call.ret
    /\ Len(StoreBefore) = 2
    /\ Len(FileRows) = 2
    /\ HeaderOnce


(***************************************************************************)
(* Orientation, order of the steps and shape of the command.               *)
(***************************************************************************)
\* the page of the request is wider than high, as stored
LandscapePage == req.box[1] > req.box[2]

\* C22: for a landscape document every invocation of the rasterizer gets the
\* two sides exchanged exactly once between the measurement and the device
\* parameters (device width below device height) and the orientation flag 1,
\* on the panel path and on the programmatic path.
C22_ExactlyOneSwap ==
    \A i \in 1..Len(gsCalls) :
        LandscapePage =>
            /\ gsCalls[i].cmd.width < gsCalls[i].cmd.height
            /\ gsCalls[i].cmd.orient = 1


\* the document of the request was resolved and its first page measured
Analysed == req.box # <<0, 0>>

\* C23: the steps of a request are in order: the rasterizer is invoked only
\* after the document was resolved and analysed, nothing outside the request
\* (configuration file, default printer) has changed while the document is
\* not analysed, and the log store changes only after the main job returned
\* exit code 0.
C23_StepOrder ==
    req.path # "none" =>
        /\ gsCalls # <<>> => Analysed
        /\ ~Analysed => /\ configFile = req.before.configFile
                        /\ defaultPrinter = req.before.defaultPrinter
        /\ logFile # req.log_before => MainExitZero


\* the argument list of the claim for the values of an invocation
ArgumentShape(c) ==
    << <<"-dNOPAUSE">>, <<"-dBATCH">>, <<"-dSAFER">>, <<"-sDEVICE=mswinpr2">>,
       <<"-sOutputFile=%printer%">> \o c.printer,
       <<"-dNumCopies=">> \o IntToStr(c.copies),
       <<"-dDEVICEWIDTHPOINTS=">> \o IntToStr(c.width),
       <<"-dDEVICEHEIGHTPOINTS=">> \o IntToStr(c.height),
       <<"-dORIENT1=">> \o IntToStr(c.orient),
       <<"-c">>,
       PageSizePolicy,
       PageOffsetScale(c.offset_x, c.offset_y, c.scale),
       <<"-f">>,
       c.input >>

\* C24: every invocation of the rasterizer, main or separator, on either
\* path, has after the executable the arguments -dNOPAUSE, -dBATCH, -dSAFER,
\* -sDEVICE=mswinpr2, -sOutputFile=%printer%<printer>, -dNumCopies=<copies>,
\* -dDEVICEWIDTHPOINTS, -dDEVICEHEIGHTPOINTS, -dORIENT1, -c, the page-size
\* policy, the page offset and scale, -f and the input path, in this order.
C24_ArgumentOrder ==
    \A i \in 1..Len(gsCalls) :
        /\ gsCalls[i].argv[1] = <<gsCalls[i].cmd.exe>>
        /\ Tail(gsCalls[i].argv) = ArgumentShape(gsCalls[i].cmd)
        /\ gsCalls[i].cmd.printer = req.printer
        /\ gsCalls[i].cmd.copies = (IF gsCalls[i].kind = "main" THEN req.quantity ELSE 1)
        /\ gsCalls[i].cmd.orient \in {0, 1}

C24_Witness ==
    /\ pc = "done" /\ req.path = "panel" /\ Len(gsCalls) = 2
    /\ gsCalls[2].kind = "sep" /\ gsCalls[2].outcome = "exit0"
    /\ gsCalls[1].argv[7] = <<"-dNumCopies=", "2">>
    /\ gsCalls[2].argv[7] = <<"-dNumCopies=", "1">>
    /\ gsCalls[2].argv[15] = PathJoin(other_folder_default, separator_pdf_default)

C24_WitnessApi ==
    /\ pc = "done" /\ req.path = "api" /\ Len(gsCalls) = 2
    /\ gsCalls[1].argv[10] = <<"-dORIENT1=", "1">>
    /\ gsCalls[1].argv[15] = req.full_path


(***************************************************************************)
(* The configuration file.                                                 *)
(***************************************************************************)
\* what load_config leaves of the file the request found: a key that was
\* present keeps its value, a missing key has its default, and the file was
\* written exactly when it was absent or lacked a default key
BackfilledOnly ==
    LET old == req.before.configFile
        lacks(k) == old.state = "absent" \/ old.keys[k] = NoKey
    IN  /\ configFile.state = "valid"
        /\ \A k \in DefaultKeys :
               configFile.keys[k] = (IF lacks(k) THEN default_paths[k] ELSE old.keys[k])
        /\ req.config_written <=> (\E k \in DefaultKeys : lacks(k))
        /\ ~req.config_written => configFile = old

\* C25: the configuration is loaded once per process: a load adds defaults
\* for missing keys only, keeps the keys that are present and writes the file
\* exactly when it was absent or a default was added, and a print request of
\* a process that has loaded the configuration neither reads nor writes the
\* file again.
C25_LoadedOncePerProcess ==
    req.path # "none" =>
        /\ (req.config_loads > 0 /\ result # "raised") => BackfilledOnly
        /\ req.before.config_loaded =>
               /\ req.config_loads = 0
               /\ configFile = req.before.configFile


(***************************************************************************)
(* Delete against a concurrent append (specification SpecLog).             *)
(***************************************************************************)
\* the records the delete kept when it read the store
KeptAtRead == SelectSeq(read_print_log(deleting.snapshot, TRUE), LAMBDA r : r[1] # deleting.ts)

\* occurrences of a record in a list of records
Count(records, rec) == Cardinality({ i \in 1..Len(records) : records[i] = rec })

\* C26: delete reads the whole store and rewrites it later without a lock:
\* after a delete that rewrote the store, the store holds exactly the records
\* kept at the read, so a record appended between the read and the rewrite,
\* with another timestamp than the deleted one, is not in the store.
C26_AppendLostInDelete ==
    (deleting.phase = "done" /\ call.op = "delete_rewrite" /\ call.ret) =>
        /\ read_print_log(logFile, TRUE) = KeptAtRead
        /\ \A i \in 1..Len(deleting.appended) :
               deleting.appended[i][1] # deleting.ts =>
                   Count(read_print_log(logFile, TRUE), deleting.appended[i])
                       = Count(KeptAtRead, deleting.appended[i])

C26_Witness ==
    /\ deleting.phase = "done" /\ call.op = "delete_rewrite" /\ call.ret
    /\ Len(deleting.appended) = 1
    /\ deleting.appended[1][1] # deleting.ts
    /\ Len(read_print_log(call.before, TRUE)) = 2
    /\ Count(read_print_log(call.before, TRUE), deleting.appended[1]) = 1
    /\ Count(read_print_log(logFile, TRUE), deleting.appended[1]) = 0


(***************************************************************************)
(* Jobs started from the history and the common files (SpecHistory).       *)
(***************************************************************************)
\* the request is a reprint of a record whose file is still where it was
\* printed from and whose printer has a panel
Reprintable ==
    /\ req.how.origin = "reprint"
    /\ req.how.origin_exists
    /\ req.how.record[4] \in DOMAIN panels

\* C27: the reprint of a history record whose file still exists where it
\* was printed from and whose printer has a panel starts a job for that
\* file, with the quantity and the printer of the record, whether the record
\* is of a SKU document, of a common file or of a separator page.
C27_ReprintSameFile ==
    Reprintable =>
        /\ req.path = "panel"
        /\ req.full_path = PrintedFrom(req.how.record)
        /\ req.quantity = ParseQuantity(req.how.record[3])
        /\ req.printer = req.how.record[4]
        /\ \A i \in 1..Len(gsCalls) :
               gsCalls[i].kind = "main" =>
                   /\ gsCalls[i].cmd.input = PrintedFrom(req.how.record)
                   /\ gsCalls[i].cmd.copies = ParseQuantity(req.how.record[3])
                   /\ gsCalls[i].cmd.printer = req.how.record[4]

\* C29: on the panel path, for a job started by SKU entry, by a common file
\* or by reprint, the rasterizer gets a number of copies within 1..9999 and
\* the record of the main job has that number as its quantity.
C29_PanelCopies ==
    req.path = "panel" =>
        \A i \in 1..Len(gsCalls) :
            gsCalls[i].kind = "main" =>
                /\ gsCalls[i].cmd.copies \in 1..9999
                /\ gsCalls[i].argv[7] = <<"-dNumCopies=">> \o IntToStr(gsCalls[i].cmd.copies)
                /\ req.main_logged =>
                       LET records == Records
                           n       == Len(Before)
                       IN  /\ Len(records) > n
                           /\ records[n + 1][2] = req.filename
                           /\ records[n + 1][3] = IntToStr(gsCalls[i].cmd.copies)

C29_Witness ==
    /\ pc = "done" /\ req.path = "panel" /\ req.how.origin = "reprint"
    /\ req.how.record[3] = IntToStr(10000)
    /\ Len(gsCalls) > 0 /\ gsCalls[1].cmd.copies = 9999
    /\ req.main_logged
    /\ Records[Len(Before) + 1][3] = IntToStr(9999)


(***************************************************************************)
(* Order of the records of a request (specification Spec).                 *)
(***************************************************************************)
SepStatus == IF req.path = "api" THEN ApiSepStatus ELSE PanelSepStatus

\* records the request in flight has appended
Appended == (IF req.main_logged THEN 1 ELSE 0) + (IF req.sep_logged THEN 1 ELSE 0)

\* C28: a request appends at most two records; the records the store held
\* keep their places in front of them, so the store is in the order of
\* submission; the record of the separator is the last one and, when the
\* record of the main job was appended too, directly behind it.
C28_RecordsInSubmissionOrder ==
    req.path # "none" =>
        LET records == Records
            before  == Before
            n       == Len(before)
        IN  /\ Len(records) = n + Appended
            /\ Len(records) <= n + 2
            /\ SubSeq(records, 1, n) = before
            /\ req.main_logged =>
                   /\ records[n + 1][2] = req.filename
                   /\ records[n + 1][5] = MainStatus
            /\ req.sep_logged =>
                   /\ records[Len(records)][2] = req.separator_name
                   /\ records[Len(records)][5] = SepStatus
                   /\ MainExitZero
                   /\ req.main_logged => Len(records) = n + 2

C28_Witness ==
    /\ pc = "done" /\ req.main_logged /\ req.sep_logged
    /\ Len(Before) = 1 /\ Len(Records) = 3
    /\ Records[1] = Before[1]
    /\ Records[2][5] = MainStatus /\ Records[3][5] = SepStatus

=============================================================================
